---- MODULE Spec2Model ----
(***************************************************************************)
(* A model of the GraphRAG chatbot's retrieval core:                       *)
(*   - GraphRAG (app/services/rag/graph_rag.py): the similarity graph,      *)
(*   - ChatService.get_response (app/services/chat.py) behind the /chat     *)
(*     endpoint (app/api/endpoints/chat.py), with the tool gateway and the  *)
(*     web_search tool (app/services/tool_gateway.py, tool_service.py),     *)
(*   - VectorStore.add_documents (app/services/vector_store.py) as the      *)
(*     loader calls it (load_knowledge_base.py),                            *)
(*   - the messages of a conversation (app/services/chat_history.py) as     *)
(*     the /chat and /conversations endpoints write and list them,          *)
(*   - the knowledge-base file endpoint (app/api/endpoints/chat.py).        *)
(*                                                                         *)
(* Numbers that are floats in the program (cosine similarities, retrieval  *)
(* scores) are fixed-point integers in units of 1/10000.                   *)
(***************************************************************************)
EXTENDS Integers, Sequences, FiniteSets, TLC

\* Python's None.
None == "<None>"

\* dict[key] = value: the key is added when it is new.
Put(f, k, v) == [x \in (DOMAIN f) \cup {k} |-> IF x = k THEN v ELSE f[x]]

\* The keys of an insertion-ordered dict after dict[key] = ...: a new key goes
\* last, a key that is present keeps its place.
PutKey(keys, k) ==
    IF \E i \in 1..Len(keys) : keys[i] = k THEN keys ELSE Append(keys, k)

SeqToSet(s) == {s[i] : i \in 1..Len(s)}

(***************************************************************************)
(*                         GraphRAG (graph_rag.py)                         *)
(***************************************************************************)

\* Inputs of add_document.
DocIds == {"d1", "d2", "d3"}
\* Embeddings with integer norms, so that every cosine is an exact multiple of
\* 1/10000: cos(E1,E2) = 0.7, cos(E2,E3) = 0.8, cos(E1,E3) = 0.5.
E1 == <<1, 0, 0, 0>>
E2 == <<7, 7, 1, 1>>
E3 == <<1, 1, 1, 1>>
Embeddings == {E1, E2, E3}
DocTexts == {"alpha", "beta"}
DocMetadata == {None}

\* The number of add_document calls of a run.
MaxCalls == 3

\* if similarity > 0.7, in units of 1/10000
Threshold == 7000

Dot(a, b) == a[1] * b[1] + a[2] * b[2] + a[3] * b[3] + a[4] * b[4]

Norm(a) == CHOOSE n \in 0..Dot(a, a) : n * n = Dot(a, a)

\* util.cos_sim(a.reshape(1, -1), b.reshape(1, -1)).item()
CosSim(a, b) == (Dot(a, b) * 10000) \div (Norm(a) * Norm(b))

VARIABLES
    graph_nodes,   \* self.graph: the node ids, in insertion order
    node_attr,     \* self.graph.nodes[id]: [text, metadata]
    adj,           \* self.graph.adj[id]: the neighbours of id, in insertion order
    edge_weight,   \* self.graph.edges[a, b]["weight"], per unordered pair {a, b}
    emb_keys,      \* self.embeddings: its keys, in insertion order
    embeddings,    \* self.embeddings[id]
    texts,         \* self.texts[id]
    last_call,     \* the last call on the graph and how it ended
    n_calls        \* the number of calls made on the graph

graph_vars == <<graph_nodes, node_attr, adj, edge_weight, emb_keys, embeddings, texts>>

\* The graph with the record of the calls made on it.
graph_state == <<graph_vars, last_call, n_calls>>

\* nx.Graph.add_node(id, text=..., metadata=...): a new node is created with an
\* empty adjacency; the attributes of a node that exists are updated.
add_node(g, id, attrs) ==
    [g EXCEPT !.nodes = PutKey(g.nodes, id),
              !.attr = Put(g.attr, id, attrs),
              !.adj = IF id \in DOMAIN g.adj THEN g.adj ELSE Put(g.adj, id, <<>>)]

\* nx.Graph.add_edge(u, v, weight=w) between two nodes of the graph: the edge's
\* data is shared by both directions; an edge that exists has its weight updated.
add_edge(g, u, v, w) ==
    [g EXCEPT !.adj = [x \in DOMAIN g.adj |->
                          IF x = u THEN PutKey(g.adj[u], v)
                          ELSE IF x = v THEN PutKey(g.adj[v], u)
                          ELSE g.adj[x]],
              !.weight = Put(g.weight, {u, v}, w)]

\* The loop of add_document, without the test existing_id != doc_id.
RECURSIVE LinkSimilarAndSelf(_, _, _, _, _, _)
LinkSimilarAndSelf(g, keys, embs, doc_id, embedding, i) ==
    IF i > Len(keys) THEN g
    ELSE LET existing_id == keys[i]
             similarity == CosSim(embedding, embs[existing_id])
             g2 == IF similarity > Threshold
                   THEN add_edge(g, doc_id, existing_id, similarity)
                   ELSE g
         IN LinkSimilarAndSelf(g2, keys, embs, doc_id, embedding, i + 1)

\* The loop of add_document over self.embeddings, from key number i on.
RECURSIVE LinkSimilar(_, _, _, _, _, _)
LinkSimilar(g, keys, embs, doc_id, embedding, i) ==
    IF i > Len(keys) THEN g
    ELSE LET existing_id == keys[i]
             similarity == CosSim(embedding, embs[existing_id])
             g2 == IF existing_id # doc_id /\ similarity > Threshold
                   THEN add_edge(g, doc_id, existing_id, similarity)
                   ELSE g
         IN LinkSimilar(g2, keys, embs, doc_id, embedding, i + 1)

\* GraphRAG.__init__
GraphInit ==
    /\ graph_nodes = <<>>
    /\ node_attr = <<>>
    /\ adj = <<>>
    /\ edge_weight = <<>>
    /\ emb_keys = <<>>
    /\ embeddings = <<>>
    /\ texts = <<>>
    /\ last_call = [op |-> "init", id |-> None, was_present |-> FALSE, outcome |-> "returned"]
    /\ n_calls = 0

\* GraphRAG.add_document(doc_id, text, embedding, metadata)
add_document(doc_id, text, embedding, metadata) ==
    LET g0 == [nodes |-> graph_nodes, attr |-> node_attr, adj |-> adj, weight |-> edge_weight]
        g1 == add_node(g0, doc_id,
                       [text |-> text,
                        metadata |-> IF metadata = None THEN "{}" ELSE metadata])
        keys1 == PutKey(emb_keys, doc_id)
        embs1 == Put(embeddings, doc_id, embedding)
        g2 == LinkSimilar(g1, keys1, embs1, doc_id, embedding, 1)
    IN /\ graph_nodes' = g2.nodes
       /\ node_attr' = g2.attr
       /\ adj' = g2.adj
       /\ edge_weight' = g2.weight
       /\ emb_keys' = keys1
       /\ embeddings' = embs1
       /\ texts' = Put(texts, doc_id, text)
       /\ last_call' = [op |-> "add_document", id |-> doc_id,
                        was_present |-> doc_id \in SeqToSet(graph_nodes),
                        outcome |-> "returned"]

AddDocument ==
    /\ n_calls < MaxCalls
    /\ n_calls' = n_calls + 1
    /\ \E doc_id \in DocIds, text \in DocTexts, embedding \in Embeddings, metadata \in DocMetadata :
           add_document(doc_id, text, embedding, metadata)

StoredIds == SeqToSet(emb_keys)

HasEdge(a, b) == {a, b} \in DOMAIN edge_weight

\* doc_id in self.graph
InGraph(doc_id) == doc_id \in SeqToSet(graph_nodes)

\* The inner loop of get_context, were `neighbors` to keep the last round only.
RECURSIVE ExploreLastRound(_, _)
ExploreLastRound(current_neighbors, depth) ==
    IF depth <= 0 THEN {}
    ELSE LET new_neighbors == UNION {SeqToSet(adj[node]) :
                                       node \in {n \in current_neighbors : InGraph(n)}}
         IN IF depth = 1 THEN new_neighbors
            ELSE ExploreLastRound(new_neighbors, depth - 1)

\* The inner loop of get_context (lines 44-50): what `neighbors` is given by
\* `depth` more rounds that start from current_neighbors.
RECURSIVE Explore(_, _)
Explore(current_neighbors, depth) ==
    IF depth <= 0 THEN {}
    ELSE LET new_neighbors == UNION {SeqToSet(adj[node]) :
                                       node \in {n \in current_neighbors : InGraph(n)}}
         IN new_neighbors \cup Explore(new_neighbors, depth - 1)

\* get_context, were the nodes returned by the call before left out as seen.
ContextIdsUnseen(relevant_docs, depth) ==
    IF Len(relevant_docs) = 0 THEN {}
    ELSE LET context == SeqToSet(relevant_docs)
             neighbors == UNION {Explore({doc_id}, depth) :
                                   doc_id \in {d \in context : InGraph(d)}}
             seen == IF last_call.op = "get_context"
                     THEN {last_call.results[i].id : i \in 1..Len(last_call.results)}
                     ELSE {}
         IN {doc_id \in (context \cup neighbors) \ seen :
                doc_id \in DOMAIN texts /\ InGraph(doc_id)}

\* get_context, were a depth of 0 to fall back to the default depth of 1.
ContextIdsDefaultDepth(relevant_docs, depth) ==
    IF Len(relevant_docs) = 0 THEN {}
    ELSE LET context == SeqToSet(relevant_docs)
             neighbors == UNION {Explore({doc_id}, IF depth = 0 THEN 1 ELSE depth) :
                                   doc_id \in {d \in context : InGraph(d)}}
         IN {doc_id \in context \cup neighbors :
                doc_id \in DOMAIN texts /\ InGraph(doc_id)}

\* get_context, lines 32-57: the ids of the documents of the result.
ContextIds(relevant_docs, depth) ==
    IF Len(relevant_docs) = 0 THEN {}
    ELSE LET context == SeqToSet(relevant_docs)
             neighbors == UNION {Explore({doc_id}, depth) :
                                   doc_id \in {d \in context : InGraph(d)}}
         IN {doc_id \in context \cup neighbors :
                doc_id \in DOMAIN texts /\ InGraph(doc_id)}

\* The orders in which a Python set can be iterated.
Orderings(S) ==
    {order \in [1..Cardinality(S) -> S] :
        \A i, j \in 1..Cardinality(S) : i # j => order[i] # order[j]}

\* get_context, lines 55-64: the result for one iteration order of `context`.
ContextResults(order) ==
    [i \in 1..Len(order) |->
        [id |-> order[i], text |-> texts[order[i]],
         metadata |-> IF "metadata" \in DOMAIN node_attr[order[i]]
                      THEN node_attr[order[i]].metadata ELSE "{}"]]

\* The seed lists and depths of the get_context calls.
SeedLists == {<<>>, <<"d1">>, <<"d2">>, <<"d3">>,
              <<"d1", "d2">>, <<"d3", "d2">>, <<"d3", "d3">>}
Depths == {0, 1, 2}

\* GraphRAG.get_context(relevant_docs, depth). A behaviour follows one call and
\* its repetition: a call with other arguments is the first call of another
\* behaviour, from the same graph.
GetContext ==
    /\ \E relevant_docs \in SeedLists, depth \in Depths :
          /\ last_call.op = "get_context" =>
                (relevant_docs = last_call.seeds /\ depth = last_call.depth)
          /\ \E context \in {ContextIds(relevant_docs, depth)} :
              \E order \in Orderings(context) :
                last_call' = [op |-> "get_context", id |-> None, was_present |-> FALSE,
                          outcome |-> "returned",
                          seeds |-> relevant_docs, depth |-> depth,
                          repeats |-> /\ last_call.op = "get_context"
                                      /\ last_call.seeds = relevant_docs
                                      /\ last_call.depth = depth,
                          results |-> ContextResults(order)]
    /\ UNCHANGED <<graph_vars, n_calls>>

\* sorted(relationships, key=lambda x: x["similarity"], reverse=True): stable,
\* so of two equal weights the one that comes first in the list stays first.
RECURSIVE SortedBySimilarityDesc(_)
SortedBySimilarityDesc(rels) ==
    IF Len(rels) = 0 THEN <<>>
    ELSE LET m == CHOOSE i \in 1..Len(rels) :
                     /\ \A j \in 1..Len(rels) : rels[j].similarity <= rels[i].similarity
                     /\ \A j \in 1..(i-1) : rels[j].similarity < rels[i].similarity
         IN <<rels[m]>> \o SortedBySimilarityDesc(
                [k \in 1..(Len(rels) - 1) |-> IF k < m THEN rels[k] ELSE rels[k + 1]])

\* get_document_relationships, lines 68-80: what the call returns.
get_document_relationships(doc_id) ==
    IF ~InGraph(doc_id) THEN <<>>
    ELSE SortedBySimilarityDesc(
            [i \in 1..Len(adj[doc_id]) |->
                LET neighbor == adj[doc_id][i]
                IN [id |-> neighbor,
                    text |-> texts[neighbor],
                    similarity |-> edge_weight[{doc_id, neighbor}],
                    metadata |-> node_attr[neighbor].metadata]])

\* GraphRAG.get_document_relationships(doc_id)
GetDocumentRelationships ==
    /\ \E doc_id \in DocIds :
          last_call' = [op |-> "get_document_relationships", id |-> doc_id,
                        was_present |-> InGraph(doc_id),
                        outcome |-> "returned",
                        results |-> get_document_relationships(doc_id)]
    /\ UNCHANGED <<graph_vars, n_calls>>

\* The add_document calls that build the graph, before the queries are made
\* on it.
MaxAdds == 4

AddDocumentThenQuery ==
    /\ last_call.op \in {"init", "add_document"}
    /\ n_calls < MaxAdds
    /\ n_calls' = n_calls + 1
    /\ \E doc_id \in DocIds, embedding \in Embeddings, metadata \in DocMetadata :
           add_document(doc_id, "alpha", embedding, metadata)

(***************************************************************************)
(*            ChatService.get_response behind POST /chat                   *)
(***************************************************************************)

\* Strings whose characters the program looks at are sequences of characters.
\* "What is the current state of quantum computing in 2025?"
Q_QUANTUM ==
    <<"W", "h", "a", "t", " ", "i", "s", " ", "t", "h", "e", " ", "c", "u", "r", "r", "e", "n", "t", " ", "s", "t", "a", "t", "e", " ", "o", "f", " ", "q", "u", "a", "n", "t", "u", "m", " ", "c", "o", "m", "p", "u", "t", "i", "n", "g", " ", "i", "n", " ", "2", "0", "2", "5", "?">>
\* "What is RAG?"
Q_RAG ==
    <<"W", "h", "a", "t", " ", "i", "s", " ", "R", "A", "G", "?">>
\* "What happened in 2023?"
Q_2023 ==
    <<"W", "h", "a", "t", " ", "h", "a", "p", "p", "e", "n", "e", "d", " ", "i", "n", " ", "2", "0", "2", "3", "?">>
\* "Do you know RAG?"
Q_KNOW ==
    <<"D", "o", " ", "y", "o", "u", " ", "k", "n", "o", "w", " ", "R", "A", "G", "?">>
\* "LATEST NEWS"
Q_UPPER ==
    <<"L", "A", "T", "E", "S", "T", " ", "N", "E", "W", "S">>
\* The messages of the chat requests.
Queries == {Q_QUANTUM, Q_RAG, Q_2023, Q_KNOW, Q_UPPER}

\* The keyword list of needs_web_search.
WebSearchKeywords ==
    { <<"c", "u", "r", "r", "e", "n", "t">>,
      <<"l", "a", "t", "e", "s", "t">>,
      <<"t", "o", "d", "a", "y">>,
      <<"r", "e", "c", "e", "n", "t">>,
      <<"n", "o", "w">>,
      <<"2", "0", "2", "4">>,
      <<"2", "0", "2", "5">>,
      <<"b", "r", "e", "a", "k", "i", "n", "g">>,
      <<"n", "e", "w", "s">>,
      <<"m", "o", "r", "e">>,
      <<"a", "d", "d", "i", "t", "i", "o", "n", "a", "l">>,
      <<"e", "x", "p", "a", "n", "d">>,
      <<"e", "l", "a", "b", "o", "r", "a", "t", "e">>,
      <<"d", "e", "t", "a", "i", "l", "s">>,
      <<"c", "o", "m", "p", "r", "e", "h", "e", "n", "s", "i", "v", "e">>,
      <<"c", "o", "m", "p", "l", "e", "t", "e">>,
      <<"u", "p", "d", "a", "t", "e">>,
      <<"n", "e", "w">>,
      <<"a", "d", "v", "a", "n", "c", "e">>,
      <<"d", "e", "v", "e", "l", "o", "p", "m", "e", "n", "t">>,
      <<"t", "r", "e", "n", "d">>,
      <<"s", "t", "a", "t", "e", " ", "o", "f">>,
      <<"o", "v", "e", "r", "v", "i", "e", "w">> }

UpperCase == <<"A", "B", "C", "D", "E", "F", "G", "H", "I", "J", "K", "L", "M", "N", "O", "P", "Q", "R", "S", "T", "U", "V", "W", "X", "Y", "Z">>

LowerCase == <<"a", "b", "c", "d", "e", "f", "g", "h", "i", "j", "k", "l", "m", "n", "o", "p", "q", "r", "s", "t", "u", "v", "w", "x", "y", "z">>

\* str.lower()
Lower(s) ==
    [i \in 1..Len(s) |->
        IF \E k \in 1..Len(UpperCase) : UpperCase[k] = s[i]
        THEN LowerCase[CHOOSE k \in 1..Len(UpperCase) : UpperCase[k] = s[i]]
        ELSE s[i]]

\* keyword in text
Contains(text, keyword) ==
    \E i \in 1..(Len(text) - Len(keyword) + 1) :
        SubSeq(text, i, i + Len(keyword) - 1) = keyword

DigitChars == <<"0", "1", "2", "3", "4", "5", "6", "7", "8", "9">>

IsDigit(c) == \E d \in 0..9 : DigitChars[d + 1] = c

\* Four digits in a row.
ContainsYear(q) ==
    \E i \in 1..(Len(q) - 3) : \A j \in i..(i + 3) : IsDigit(q[j])

\* The trigger, were every 4-digit year a keyword.
NeedsWebSearchAnyYear(q) ==
    \/ \E keyword \in WebSearchKeywords : Contains(Lower(q), keyword)
    \/ ContainsYear(q)

\* any(keyword in query.lower() for keyword in [...])
NeedsWebSearch(q) == \E keyword \in WebSearchKeywords : Contains(Lower(q), keyword)

\* None where the value, when present, is a dict or a list.
NoneObj == [none |-> TRUE]

\* dict.get(key, default)
Get(d, k, default) == IF k \in DOMAIN d THEN d[k] ELSE default

\* A text is known by its document and its length: the first len characters
\* of the document's text, followed by "..." when ellipsis is set.
EmptyStr == [doc |-> None, len |-> 0, ellipsis |-> FALSE]

Text(doc, n) == IF n = 0 THEN EmptyStr ELSE [doc |-> doc, len |-> n, ellipsis |-> FALSE]

\* len(full_text) > 2000
ContextBudget == 2000

\* len(full_text) > 300
PreviewBudget == 300

\* full_text[:n] + "..." if len(full_text) > n else full_text
Truncated(t, n) ==
    IF t.len > n THEN [doc |-> t.doc, len |-> n, ellipsis |-> TRUE] ELSE t

\* The payloads of the documents of the index (everything but "text").
M_FILE == [topic |-> "RAG", category |-> "AI", filename |-> "rag.txt", source |-> "knowledge_base"]
M_NOFILE == [topic |-> "Qdrant", category |-> "DB", source |-> "knowledge_base"]
M_UNKNOWN == [topic |-> "GraphRAG", filename |-> "Unknown", source |-> "knowledge_base"]
M_SEEDFILE == [category |-> "AI", filename |-> "seed.txt", source |-> "original"]
M_NOSOURCE == [topic |-> "Notes", category |-> "Misc", filename |-> "notes.txt"]

\* The candidates semantic_search can return: {"text", "score", "metadata"}.
K1 == [text |-> Text("rag", 120), score |-> 9000, metadata |-> M_FILE]
K2 == [text |-> Text("qdrant", 301), score |-> 5000, metadata |-> M_NOFILE]
K3 == [text |-> Text("graphrag", 2001), score |-> 9000, metadata |-> M_UNKNOWN]
K4 == [text |-> Text("seed", 0), score |-> 8756, metadata |-> M_SEEDFILE]
K5 == [text |-> Text("notes", 40), score |-> 5000, metadata |-> M_NOSOURCE]
Candidates == {K1, K2, K3, K4, K5}

\* The number of candidates the index returns for a query (limit=5 in the program).
MaxCands == 2

CandidateLists == UNION {[1..n -> Candidates] : n \in 0..MaxCands}

\* The sort, were it ascending and then reversed: equal scores change places.
RECURSIVE SortedByScoreReversed(_)
SortedByScoreReversed(docs) ==
    IF Len(docs) = 0 THEN <<>>
    ELSE LET rest == SortedByScoreReversed(SubSeq(docs, 1, Len(docs) - 1))
             x == docs[Len(docs)]
             k == Cardinality({i \in 1..Len(rest) :
                                  Get(rest[i], "score", 0) > Get(x, "score", 0)})
         IN SubSeq(rest, 1, k) \o <<x>> \o SubSeq(rest, k + 1, Len(rest))

\* sorted(relevant_docs, key=lambda x: x.get('score', 0.0), reverse=True): a
\* stable sort, equal scores keep their order.
RECURSIVE SortedByScoreDesc(_)
SortedByScoreDesc(docs) ==
    IF Len(docs) = 0 THEN <<>>
    ELSE LET rest == SortedByScoreDesc(SubSeq(docs, 1, Len(docs) - 1))
             x == docs[Len(docs)]
             k == Cardinality({i \in 1..Len(rest) :
                                  Get(rest[i], "score", 0) >= Get(x, "score", 0)})
         IN SubSeq(rest, 1, k) \o <<x>> \o SubSeq(rest, k + 1, Len(rest))

RECURSIVE IntToChars(_)
IntToChars(n) ==
    IF n < 10 THEN <<DigitChars[n + 1]>>
    ELSE IntToChars(n \div 10) \o <<DigitChars[(n % 10) + 1]>>

\* f"{score:.3f}" of a score in units of 1/10000 (no score of the model lies
\* half-way between two thousandths).
Format3f(x) ==
    LET a == IF x < 0 THEN 0 - x ELSE x
        r == (a + 5) \div 10
        frac == r % 1000
    IN (IF x < 0 THEN <<"-">> ELSE <<>>)
       \o IntToChars(r \div 1000) \o <<".">>
       \o <<DigitChars[(frac \div 100) + 1], DigitChars[((frac \div 10) % 10) + 1],
            DigitChars[(frac % 10) + 1]>>

\* has_file, were the source of the document not looked at.
HasFileIgnoresSource(filename, source_type) ==
    filename # None /\ filename # "Unknown"

\* has_file = filename is not None and filename != "Unknown" and source_type != "original"
HasFile(filename, source_type) ==
    filename # None /\ filename # "Unknown" /\ source_type # "original"

\* top_source_info for the top document (lines 73-103).
SourceInfo(top_document) ==
    LET metadata == Get(top_document, "metadata", <<>>)
        topic == Get(metadata, "topic", "Unknown")
        source_type == Get(metadata, "source", "")
        filename == Get(metadata, "filename", None)
        has_file == HasFile(filename, source_type)
    IN [type |-> "knowledge_base",
        topic |-> topic,
        category |-> Get(metadata, "category", "Unknown"),
        filename |-> IF has_file THEN filename ELSE None,
        score |-> Get(top_document, "score", 0),
        relevance_score |-> Format3f(Get(top_document, "score", 0)),
        has_file |-> has_file]

\* The selection of the top match (lines 56-106).
SelectTop(relevant_docs) ==
    IF Len(relevant_docs) > 0
    THEN LET sorted_docs == SortedByScoreDesc(relevant_docs)
             top_document == sorted_docs[1]
         IN [top_document |-> top_document,
             enhanced_context |-> <<[id |-> "doc_0",
                                     text |-> Get(top_document, "text", EmptyStr),
                                     metadata |-> Get(top_document, "metadata", <<>>),
                                     score |-> Get(top_document, "score", 0)]>>,
             top_source_info |-> SourceInfo(top_document)]
    ELSE [top_document |-> NoneObj, enhanced_context |-> <<>>, top_source_info |-> NoneObj]

\* The knowledge-base context of the prompt (lines 119-175).
BuildContext(enhanced_context, top_source_info) ==
    IF Len(enhanced_context) > 0
    THEN LET top_doc == enhanced_context[1]
             full_text == top_doc.text
             preview_text == Truncated(full_text, PreviewBudget)
             info == IF top_source_info = NoneObj
                     THEN SourceInfo(top_doc) @@ [text_preview |-> preview_text]
                     ELSE IF "text_preview" \notin DOMAIN top_source_info
                          THEN top_source_info @@ [text_preview |-> preview_text]
                          ELSE top_source_info
         IN [context_str |-> Truncated(full_text, ContextBudget), top_source_info |-> info]
    ELSE [context_str |-> EmptyStr, top_source_info |-> top_source_info]

\* What the Brave Search call of _brave_search can come to: results, an empty
\* result page, no BRAVE_API_KEY, or a transport error or timeout.
BraveOutcomes == {"results", "no_results", "no_key", "transport_error"}

\* What _scrape_live_web_data can come to.
ScrapeOutcomes == {"scraped", "links_only"}

\* A returned string is the sequence of its (non-empty) parts.
\* ToolService._brave_search: every failure is returned as a warning string.
brave_search(brave) ==
    CASE brave = "results" -> <<"Brave Search Results for: <query>">>
      [] brave = "no_results" -> <<"No results found in Brave Search for: <query>">>
      [] brave = "no_key" -> <<"!WARNING Brave Search API key not configured.">>
      [] OTHER -> <<"!WARNING Brave Search API error">>

StartsWithWarning(s) == Len(s) > 0 /\ s[1] \in
    {"!WARNING Brave Search API key not configured.", "!WARNING Brave Search API error"}

\* ToolService._web_search(arguments)
web_search(arguments, brave, scrape) ==
    IF Len(Get(arguments, "query", <<>>)) = 0
    THEN <<"Error: query argument is required">>
    ELSE LET header == <<"REAL-TIME Web Search Results for: <query>">>
             brave_result == brave_search(brave)
         IN IF Len(brave_result) > 0 /\ ~StartsWithWarning(brave_result)
            THEN header \o brave_result
            ELSE header \o brave_result
                 \o (IF scrape = "scraped"
                     THEN <<"LIVE WEB SEARCH RESULTS:", "<scraped pages>">>
                     ELSE <<"LIVE WEB SEARCH RESULTS:", "For TRULY CURRENT information, please visit: <links>">>)
                 \o <<"For REAL-TIME Information (Recommended): <links>">>

ToolNames == {"read_file", "list_directory", "search_files", "web_search",
              "get_weather", "get_news", "get_time", "get_system_info"}

\* How the body of a local tool other than web_search ends: it returns its
\* output, it returns an error text of its own (a missing argument, a file
\* that is not there, a failed request), or an exception leaves it (an
\* argument that is not a string reaches os.path.join or .lower()).
LocalOutcomes == {"ok", "failed", "raised"}

\* ToolService.execute_tool(tool_name, arguments): a string in every case.
\* get_time and get_system_info take no argument and do no I/O; _get_news is
\* not a coroutine, so `await self._get_news(...)` raises TypeError each time.
ToolService_execute_tool(tool_name, arguments, local, brave, scrape) ==
    IF tool_name = "web_search" THEN web_search(arguments, brave, scrape)
    ELSE IF tool_name \in {"get_time", "get_system_info"} THEN <<"<output of the tool>">>
    ELSE IF tool_name = "get_news" THEN <<"Error executing tool ", tool_name>>
    ELSE IF tool_name \in ToolNames
    THEN CASE local = "ok" -> <<"<output of the tool>">>
           [] local = "failed" -> <<"Error: <what the tool reports>">>
           [] OTHER -> <<"Error executing tool ", tool_name>>
    ELSE <<"Unknown tool: ", tool_name>>

\* How the remote (MCP) part of ToolGateway.execute_tool ends when USE_MCP is
\* true: _ensure_mcp is a stub that returns without a client and no remote call
\* follows it, or an exception of the try block is caught.
McpOutcomes == {"stub_returned", "raised"}

\* ToolGateway.execute_tool, were an error of the remote part to end the call
\* without a result.
ToolGateway_execute_tool_NoFallback(use_mcp, mcp, tool_name, arguments, local, brave, scrape) ==
    IF use_mcp /\ mcp = "raised"
    THEN NoneObj
    ELSE [text |-> ToolService_execute_tool(tool_name, arguments, local, brave, scrape)]

\* ToolGateway.execute_tool(tool_name, arguments): with USE_MCP the remote part
\* runs first and returns nothing; in every case the local ToolService is
\* called and its string is returned.
ToolGateway_execute_tool(use_mcp, mcp, tool_name, arguments, local, brave, scrape) ==
    [text |-> ToolService_execute_tool(tool_name, arguments, local, brave, scrape)]

\* Python's truth value of an optional string.
Truthy(s) == s # NoneObj /\ Len(s.text) > 0

\* source_name (lines 198-203)
SourceName(top_source_info) ==
    IF top_source_info # NoneObj
    THEN [topic |-> Get(top_source_info, "topic", "the knowledge base"),
          category |-> Get(top_source_info, "category", "")]
    ELSE [topic |-> "the knowledge base", category |-> ""]

\* system_content, were the web result alone enough for the first prompt.
SystemContentWebFirst(context_str, web_search_result, top_source_info) ==
    IF Truthy(web_search_result)
    THEN [template |-> "knowledge_base_and_web",
          source_name |-> SourceName(top_source_info),
          relevance_score |-> <<"N", "/", "A">>,
          context |-> context_str,
          web |-> web_search_result]
    ELSE [template |-> IF context_str.len > 0 THEN "knowledge_base_only"
                       ELSE "no_knowledge_base_results",
          source_name |-> SourceName(top_source_info),
          relevance_score |-> <<"N", "/", "A">>,
          context |-> context_str,
          web |-> NoneObj]

\* system_content (lines 205-247): which of the three prompts, and what it
\* quotes.
SystemContent(context_str, web_search_result, top_source_info) ==
    IF context_str.len > 0 /\ Truthy(web_search_result)
    THEN [template |-> "knowledge_base_and_web",
          source_name |-> SourceName(top_source_info),
          relevance_score |-> IF top_source_info # NoneObj
                              THEN Get(top_source_info, "relevance_score", <<"N", "/", "A">>)
                              ELSE <<"N", "/", "A">>,
          context |-> context_str,
          web |-> web_search_result]
    ELSE IF context_str.len > 0
    THEN [template |-> "knowledge_base_only",
          source_name |-> SourceName(top_source_info),
          relevance_score |-> IF top_source_info # NoneObj
                              THEN Get(top_source_info, "relevance_score", <<"N", "/", "A">>)
                              ELSE <<"N", "/", "A">>,
          context |-> context_str,
          web |-> NoneObj]
    ELSE [template |-> "no_knowledge_base_results",
          source_name |-> NoneObj,
          relevance_score |-> <<"N", "/", "A">>,
          context |-> EmptyStr,
          web |-> NoneObj]

\* The values of settings.OPENROUTER_API_KEY.
ApiKeys == {None, "", "your-openrouter-api-key-here", "sk-or-v1-key"}

\* not settings.OPENROUTER_API_KEY
KeyMissing(key) == key = None \/ key = ""

\* str(e) of the errors the generator call raises.
ERR_401 ==
    <<"E", "r", "r", "o", "r", " ", "c", "o", "d", "e", ":", " ", "4", "0", "1", " ", "-", " ", "U", "n", "a", "u", "t", "h", "o", "r", "i", "z", "e", "d">>
ERR_403 ==
    <<"E", "r", "r", "o", "r", " ", "c", "o", "d", "e", ":", " ", "4", "0", "3", " ", "-", " ", "F", "o", "r", "b", "i", "d", "d", "e", "n">>
ERR_TIMEOUT ==
    <<"R", "e", "q", "u", "e", "s", "t", " ", "t", "i", "m", "e", "d", " ", "o", "u", "t", ".">>
GeneratorErrors == {ERR_401, ERR_403, ERR_TIMEOUT}

\* error_msg, were the last branch (any other error) left without a message.
GeneratorErrorMessageAuthOnly(error_str) ==
    IF Contains(error_str, <<"4", "0", "1">>)
    THEN <<"Authentication failed. Please check your OPENROUTER_API_KEY in the .env file.">>
    ELSE IF Contains(error_str, <<"4", "0", "3">>)
    THEN <<"Access forbidden. Please check your OpenRouter API key permissions and account status.">>
    ELSE <<>>

\* error_msg of the except branch (lines 295-307)
GeneratorErrorMessage(error_str) ==
    IF \/ Contains(error_str, <<"4", "0", "1">>)
       \/ Contains(error_str, <<"N", "o", " ", "a", "u", "t", "h", " ", "c", "r", "e", "d", "e", "n", "t", "i", "a", "l", "s">>)
       \/ Contains(error_str, <<"I", "n", "v", "a", "l", "i", "d", " ", "A", "P", "I", " ", "k", "e", "y">>)
       \/ Contains(error_str, <<"U", "n", "a", "u", "t", "h", "o", "r", "i", "z", "e", "d">>)
    THEN <<"Authentication failed. Please check your OPENROUTER_API_KEY in the .env file.">>
    ELSE IF Contains(error_str, <<"4", "0", "3">>) \/ Contains(error_str, <<"F", "o", "r", "b", "i", "d", "d", "e", "n">>)
    THEN <<"Access forbidden. Please check your OpenRouter API key permissions and account status.">>
    ELSE <<"API Error: <error>. Please check your API key and try again.">>

\* The dict returned when the key is not configured (lines 264-272).
KeyErrorResponse(enhanced_context) ==
    [response |-> <<"OPENROUTER_API_KEY is not configured. Please set your API key in the .env file.">>,
     context |-> enhanced_context,
     sources |-> <<>>,
     metadata |-> [model |-> "openai/gpt-3.5-turbo", error |-> <<"API key not configured">>]]

\* The dict returned when the generator call raises (lines 309-317).
GeneratorErrorResponse(error_str, enhanced_context) ==
    [response |-> GeneratorErrorMessage(error_str),
     context |-> enhanced_context,
     sources |-> <<>>,
     metadata |-> [model |-> "openai/gpt-3.5-turbo", error |-> error_str]]

\* sources_list (lines 319-338)
SourcesList(q, top_source_info, web_search_result) ==
    (IF top_source_info # NoneObj THEN <<top_source_info>> ELSE <<>>)
    \o (IF Truthy(web_search_result)
        THEN <<[type |-> "web_search", source |-> "Brave Search API", query |-> q,
                note |-> "Supplementary information"]>>
        ELSE <<>>)

\* The dict returned after a successful generation (lines 342-354).
SuccessResponse(q, response_text, enhanced_context, top_source_info, web_search_result) ==
    [response |-> response_text,
     context |-> enhanced_context,
     sources |-> SourcesList(q, top_source_info, web_search_result),
     metadata |-> [model |-> "openai/gpt-3.5-turbo",
                   rag_documents_used |-> IF Len(enhanced_context) > 0 THEN 1 ELSE 0,
                   top_match_score |-> IF Len(enhanced_context) > 0
                                       THEN <<Get(enhanced_context[1], "score", 0)>>
                                       ELSE <<>>,
                   web_search_used |-> Truthy(web_search_result),
                   primary_source |-> IF top_source_info # NoneObj
                                      THEN Get(top_source_info, "topic", "None")
                                      ELSE "None"]]

\* response.choices[0].message.content of a successful generator call.
GeneratedTexts == {<<"<generated answer>">>}

VARIABLES
    pc,                \* where the request is
    api_key,           \* settings.OPENROUTER_API_KEY
    query,             \* request.message
    index_outcome,     \* how the search of the index ended
    relevant_docs,     \* what semantic_search returned
    top_document,
    enhanced_context,
    top_source_info,
    context_str,
    needs_web_search,
    web_outcome,       \* how the Brave call of web_search ended
    web_search_result,
    system_content,
    gen_outcome,       \* how the generator call ended
    response,          \* the dict get_response returns
    saved,             \* the two messages were saved to the conversation
    http               \* what the client receives

chat_vars == <<pc, api_key, query, index_outcome, relevant_docs, top_document,
               enhanced_context, top_source_info, context_str, needs_web_search,
               web_outcome, web_search_result, system_content, gen_outcome,
               response, saved, http>>

\* A stored message of a conversation (models/chat_models.py Message).
StoredMessage(role, content) == [role |-> role, content |-> content]

\* request.chat_history: a list of {"user": ..., "assistant": ...} dicts, the
\* "assistant" key being optional.
RequestHistories ==
    {<<>>,
     <<[user |-> "hi", assistant |-> "hello"]>>,
     <<[user |-> "hi"], [user |-> "and then?", assistant |-> "then this"]>>}

\* The messages of the conversation in the database, oldest first. A user
\* message has no reply after it when saving the reply failed or another
\* request of the conversation is being answered.
StoredConversations ==
    {<<>>,
     <<StoredMessage("user", "hi"), StoredMessage("assistant", "hello")>>,
     <<StoredMessage("user", "hi")>>,
     <<StoredMessage("assistant", "welcome"), StoredMessage("user", "hi"),
       StoredMessage("user", "anyone?"), StoredMessage("assistant", "hello")>>}

\* The while loop of the chat endpoint (lines 52-68), from message number i on.
RECURSIVE ToChatHistory(_, _)
ToChatHistory(existing_messages, i) ==
    IF i > Len(existing_messages) THEN <<>>
    ELSE IF existing_messages[i].role = "user"
    THEN IF i + 1 <= Len(existing_messages) /\ existing_messages[i + 1].role = "assistant"
         THEN <<[user |-> existing_messages[i].content,
                 assistant |-> existing_messages[i + 1].content]>>
              \o ToChatHistory(existing_messages, i + 2)
         ELSE <<[user |-> existing_messages[i].content, assistant |-> None]>>
              \o ToChatHistory(existing_messages, i + 1)
    ELSE ToChatHistory(existing_messages, i + 1)

\* The chat history handed to get_response (endpoint lines 31-76): the one of
\* the request, unless the database is there and holds messages.
LoadedHistory(provided, db_is_available, existing_messages) ==
    IF db_is_available /\ Len(existing_messages) > 0
    THEN ToChatHistory(existing_messages, 1)
    ELSE provided

\* get_response, lines 111-117: the turns of the chat history.
RECURSIVE PriorTurns(_)
PriorTurns(history) ==
    IF Len(history) = 0 THEN <<>>
    ELSE <<[role |-> "user", content |-> history[1].user]>>
         \o (IF "assistant" \in DOMAIN history[1]
             THEN <<[role |-> "assistant", content |-> history[1].assistant]>>
             ELSE <<>>)
         \o PriorTurns(Tail(history))

\* get_response, lines 249-254: messages
BuildMessages(system, history, q) ==
    <<[role |-> "system", content |-> system]>>
    \o PriorTurns(history)
    \o <<[role |-> "user", content |-> q]>>

VARIABLES
    request_history,   \* request.chat_history
    db_available,      \* is_db_available()
    db_messages,       \* the stored messages of the conversation
    chat_history,      \* the chat history handed to get_response
    messages           \* the messages sent to the generator

history_vars == <<request_history, db_available, db_messages, chat_history, messages>>

\* The chat history of the request and the stored conversation it continues.
HistoryStart(provided, db_is_available, existing_messages) ==
    /\ request_history = provided
    /\ db_available = db_is_available
    /\ db_messages = existing_messages
    /\ chat_history = <<>>
    /\ messages = <<>>

\* The Qdrant collection behind VectorStore.
VARIABLES
    index_points,  \* the collection: point id -> [vector, payload]
    ingested,      \* the texts that add_documents calls have upserted so far
    n_ingest       \* the number of add_documents calls made so far

index_vars == <<index_points, ingested, n_ingest>>

IndexInit ==
    /\ index_points = <<>>
    /\ ingested = {}
    /\ n_ingest = 0

\* Threads that run add_document on one GraphRAG object.
VARIABLES
    writers        \* thread -> where it is in add_document, and its arguments

Threads == {"t1", "t2"}

IdleThread == [pc |-> "idle", doc_id |-> None, embedding |-> <<>>, size |-> 0, pos |-> 0]

WritersIdle == writers = [t \in Threads |-> IdleThread]

\* One conversation of the database, the /chat requests that continue it and
\* the GET /conversations listing.
VARIABLES
    conv_messages, \* the rows of the messages table, in created_at order
    requests,      \* /chat request -> where it is in the handler, and its locals
    listing        \* the last_message_preview of the last listing, if any

conv_vars == <<conv_messages, requests, listing>>

\* GET /knowledge-base/file/{filename}.
VARIABLES
    file_call      \* the last request: its filename, its answer, the file opened

service_vars == <<index_vars, writers, conv_vars, file_call>>

Requests == {"r1", "r2"}

\* A /chat request that has not started yet.
NewRequest == [pc |-> "start", message |-> None, chat_history |-> <<>>,
               reply |-> None, status |-> 0]

ConvInit ==
    /\ conv_messages = <<>>
    /\ requests = [r \in Requests |-> NewRequest]
    /\ listing = NoneObj

FileIdle == file_call = NoneObj

\* Nothing ingested, no thread in add_document, an empty conversation, no
\* file request.
ServicesIdle == IndexInit /\ WritersIdle /\ ConvInit /\ FileIdle


VARIABLES
    tool_call,         \* the POST /tool request and what its collaborators did
    tool_result,       \* what ToolGateway.execute_tool returned
    tool_http          \* what the client of POST /tool receives

tool_vars == <<tool_call, tool_result, tool_http>>

\* No POST /tool request has been made.
ToolIdle ==
    /\ tool_call = NoneObj
    /\ tool_result = NoneObj
    /\ tool_http = NoneObj

\* A request with message q arrives; the process runs with the given key.
ChatStart(key, q) ==
    /\ pc = "depends"
    /\ api_key = key
    /\ query = q
    /\ index_outcome = "not_called"
    /\ relevant_docs = <<>>
    /\ top_document = NoneObj
    /\ enhanced_context = <<>>
    /\ top_source_info = NoneObj
    /\ context_str = EmptyStr
    /\ needs_web_search = FALSE
    /\ web_outcome = "not_called"
    /\ web_search_result = NoneObj
    /\ system_content = NoneObj
    /\ gen_outcome = [kind |-> "not_called"]
    /\ response = NoneObj
    /\ saved = FALSE
    /\ http = NoneObj

\* Depends(lambda: ChatService()): ChatService.__init__ raises ValueError when
\* the key is not set, outside the endpoint's try block.
CreateChatService ==
    /\ pc = "depends"
    /\ IF KeyMissing(api_key)
       THEN /\ pc' = "done"
            /\ http' = [status |-> 500, body |-> [detail |-> "Internal Server Error"]]
       ELSE /\ pc' = "history"
            /\ http' = http
    /\ UNCHANGED <<graph_state, tool_vars, service_vars>>
    /\ UNCHANGED history_vars
    /\ UNCHANGED <<api_key, query, index_outcome, relevant_docs, top_document,
                   enhanced_context, top_source_info, context_str, needs_web_search,
                   web_outcome, web_search_result, system_content, gen_outcome,
                   response, saved>>

\* The chat endpoint, lines 27-76: the chat history for get_response.
LoadHistory ==
    /\ pc = "history"
    /\ chat_history' = LoadedHistory(request_history, db_available, db_messages)
    /\ pc' = "retrieve"
    /\ UNCHANGED <<graph_state, tool_vars, service_vars>>
    /\ UNCHANGED <<request_history, db_available, db_messages, messages>>
    /\ UNCHANGED <<api_key, query, index_outcome, relevant_docs, top_document,
                   enhanced_context, top_source_info, context_str, needs_web_search,
                   web_outcome, web_search_result, system_content, gen_outcome,
                   response, saved, http>>

\* VectorStore.semantic_search: the hits of the index, or [] when Qdrant is
\* not available or the search fails.
semantic_search(outcome, hits) == IF outcome = "ok" THEN hits ELSE <<>>

\* get_response, lines 41-106 and 119-175: the search returned.
Retrieve ==
    /\ pc = "retrieve"
    /\ \E outcome \in {"ok", "unavailable"}, hits \in CandidateLists :
          LET docs == semantic_search(outcome, hits)
              sel == SelectTop(docs)
              ctx == BuildContext(sel.enhanced_context, sel.top_source_info)
          IN /\ outcome = "unavailable" => hits = <<>>
             /\ index_outcome' = outcome
             /\ relevant_docs' = docs
             /\ top_document' = sel.top_document
             /\ enhanced_context' = sel.enhanced_context
             /\ top_source_info' = ctx.top_source_info
             /\ context_str' = ctx.context_str
    /\ pc' = "web_search"
    /\ UNCHANGED <<graph_state, tool_vars, service_vars>>
    /\ UNCHANGED history_vars
    /\ UNCHANGED <<api_key, query, needs_web_search, web_outcome, web_search_result,
                   system_content, gen_outcome, response, saved, http>>

\* get_response, lines 107-109 and 119-175: an exception in the retrieval block.
RetrieveRaised ==
    /\ pc = "retrieve"
    /\ LET ctx == BuildContext(<<>>, NoneObj)
       IN /\ index_outcome' = "raised"
          /\ enhanced_context' = <<>>
          /\ top_source_info' = ctx.top_source_info
          /\ context_str' = ctx.context_str
    /\ pc' = "web_search"
    /\ UNCHANGED <<graph_state, tool_vars, service_vars>>
    /\ UNCHANGED history_vars
    /\ UNCHANGED <<api_key, query, relevant_docs, top_document, needs_web_search,
                   web_outcome, web_search_result, system_content, gen_outcome,
                   response, saved, http>>

\* get_response, lines 176-195: the trigger and the web_search tool call.
WebSearch ==
    /\ pc = "web_search"
    /\ needs_web_search' = NeedsWebSearch(query)
    /\ IF NeedsWebSearch(query)
       THEN \E use_mcp \in BOOLEAN, brave \in BraveOutcomes, scrape \in ScrapeOutcomes :
               /\ brave \in {"results", "no_results"} => scrape = "links_only"
               /\ web_outcome' = brave
               /\ web_search_result' =
                      ToolGateway_execute_tool(use_mcp, "stub_returned", "web_search",
                                               [query |-> query], "ok", brave, scrape)
       ELSE /\ web_outcome' = "not_called"
            /\ web_search_result' = NoneObj
    /\ pc' = "generate"
    /\ UNCHANGED <<graph_state, tool_vars, service_vars>>
    /\ UNCHANGED history_vars
    /\ UNCHANGED <<api_key, query, index_outcome, relevant_docs, top_document,
                   enhanced_context, top_source_info, context_str, system_content,
                   gen_outcome, response, saved, http>>

\* not settings.OPENROUTER_API_KEY or it is the placeholder (line 257)
KeyNotConfigured(key) == KeyMissing(key) \/ key = "your-openrouter-api-key-here"

\* get_response, lines 197-272: the prompt, and the return when the key is not
\* configured.
GenerateKeyError ==
    /\ pc = "generate"
    /\ KeyNotConfigured(api_key)
    /\ system_content' = SystemContent(context_str, web_search_result, top_source_info)
    /\ response' = KeyErrorResponse(enhanced_context)
    /\ pc' = "finish"
    /\ UNCHANGED <<graph_state, tool_vars, service_vars>>
    /\ messages' = BuildMessages(system_content', chat_history, query)
    /\ UNCHANGED <<request_history, db_available, db_messages, chat_history>>
    /\ UNCHANGED <<api_key, query, index_outcome, relevant_docs, top_document,
                   enhanced_context, top_source_info, context_str, needs_web_search,
                   web_outcome, web_search_result, gen_outcome, saved, http>>

\* get_response, lines 197-289 and 319-354: the generator answered.
GenerateOk ==
    /\ pc = "generate"
    /\ ~KeyNotConfigured(api_key)
    /\ system_content' = SystemContent(context_str, web_search_result, top_source_info)
    /\ \E response_text \in GeneratedTexts :
          response' = SuccessResponse(query, response_text, enhanced_context,
                                      top_source_info, web_search_result)
    /\ gen_outcome' = [kind |-> "ok"]
    /\ pc' = "finish"
    /\ UNCHANGED <<graph_state, tool_vars, service_vars>>
    /\ messages' = BuildMessages(system_content', chat_history, query)
    /\ UNCHANGED <<request_history, db_available, db_messages, chat_history>>
    /\ UNCHANGED <<api_key, query, index_outcome, relevant_docs, top_document,
                   enhanced_context, top_source_info, context_str, needs_web_search,
                   web_outcome, web_search_result, saved, http>>

\* get_response, lines 197-282 and 290-317: the generator call raised.
GenerateRaised ==
    /\ pc = "generate"
    /\ ~KeyNotConfigured(api_key)
    /\ system_content' = SystemContent(context_str, web_search_result, top_source_info)
    /\ \E error_str \in GeneratorErrors :
          /\ response' = GeneratorErrorResponse(error_str, enhanced_context)
          /\ gen_outcome' = [kind |-> "raised", error |-> error_str]
    /\ pc' = "finish"
    /\ UNCHANGED <<graph_state, tool_vars, service_vars>>
    /\ messages' = BuildMessages(system_content', chat_history, query)
    /\ UNCHANGED <<request_history, db_available, db_messages, chat_history>>
    /\ UNCHANGED <<api_key, query, index_outcome, relevant_docs, top_document,
                   enhanced_context, top_source_info, context_str, needs_web_search,
                   web_outcome, web_search_result, saved, http>>

\* The chat endpoint, lines 83-114: the messages are saved when the database
\* is there (a failure to save is logged), and the ChatResponse is returned.
Finish ==
    /\ pc = "finish"
    /\ \E db \in {"unavailable", "saved", "save_failed"} : saved' = (db = "saved")
    /\ http' = [status |-> 200,
                body |-> [response |-> response.response,
                          conversation_id |-> "uuid",
                          context |-> response.context,
                          metadata |-> response.metadata,
                          sources |-> response.sources]]
    /\ pc' = "done"
    /\ UNCHANGED <<graph_state, tool_vars, service_vars>>
    /\ UNCHANGED history_vars
    /\ UNCHANGED <<api_key, query, index_outcome, relevant_docs, top_document,
                   enhanced_context, top_source_info, context_str, needs_web_search,
                   web_outcome, web_search_result, system_content, gen_outcome,
                   response>>

\* The tool names of POST /tool requests: the eight local tools and a name
\* that nothing registers.
ToolRequestNames == ToolNames \cup {"translate"}

\* The arguments of POST /tool requests: with and without a "query".
ToolArguments == {[query |-> Q_RAG], [file_path |-> "notes.txt"]}

\* The execute_tool endpoint (POST /tool, endpoints/chat.py lines 126-145).
\* Depends(lambda: ChatService()) fails before the handler when the key is not
\* set; a None result raises HTTPException(400) inside the try block, which
\* `except Exception` turns into a 500.
ExecuteTool ==
    /\ tool_call = NoneObj
    /\ \E tool_name \in ToolRequestNames, arguments \in ToolArguments,
          use_mcp \in BOOLEAN, mcp \in McpOutcomes, local \in LocalOutcomes,
          brave \in BraveOutcomes, scrape \in ScrapeOutcomes :
          /\ ~use_mcp => mcp = "stub_returned"
          /\ tool_name \in {"web_search", "get_time", "get_system_info", "get_news", "translate"}
                => local = "ok"
          /\ (tool_name # "web_search" \/ "query" \notin DOMAIN arguments)
                => (brave = "results" /\ scrape = "links_only")
          /\ brave \in {"results", "no_results"} => scrape = "links_only"
          /\ tool_call' = [tool |-> tool_name, arguments |-> arguments,
                           use_mcp |-> use_mcp, mcp |-> mcp, local |-> local,
                           brave |-> brave, scrape |-> scrape]
          /\ IF KeyMissing(api_key)
             THEN /\ tool_result' = NoneObj
                  /\ tool_http' = [status |-> 500, body |-> [detail |-> "Internal Server Error"]]
             ELSE LET result == ToolGateway_execute_tool(use_mcp, mcp, tool_name, arguments,
                                                         local, brave, scrape)
                  IN /\ tool_result' = result
                     /\ tool_http' = IF result = NoneObj
                                     THEN [status |-> 500,
                                           body |-> [detail |-> "400: Tool execution failed"]]
                                     ELSE [status |-> 200,
                                           body |-> [result |-> result.text, tool |-> tool_name]]
    /\ UNCHANGED <<graph_state, chat_vars, history_vars, service_vars>>

vars == <<graph_state, chat_vars, history_vars, tool_vars, service_vars>>

ChatNext ==
    \/ CreateChatService
    \/ LoadHistory
    \/ Retrieve
    \/ RetrieveRaised
    \/ WebSearch
    \/ GenerateKeyError
    \/ GenerateOk
    \/ GenerateRaised
    \/ Finish

\* One chat request, for every key and message. ChatService.__init__ makes a
\* new, empty GraphRAG for the request and get_response never adds to it.
ChatInit ==
    /\ GraphInit
    /\ ToolIdle
    /\ ServicesIdle
    /\ HistoryStart(<<>>, FALSE, <<>>)
    /\ \E key \in ApiKeys, q \in Queries : ChatStart(key, q)

SpecChat == ChatInit /\ [][ChatNext]_vars

\* One chat request that continues a conversation: for every chat history of
\* the request and every stored conversation, with and without the database.
HistoryInit ==
    /\ GraphInit
    /\ ToolIdle
    /\ ServicesIdle
    /\ \E provided \in RequestHistories, db_is_available \in BOOLEAN,
          existing_messages \in StoredConversations :
          /\ ~db_is_available => existing_messages = <<>>
          /\ HistoryStart(provided, db_is_available, existing_messages)
    /\ \E key \in ApiKeys, q \in {Q_RAG, Q_UPPER} : ChatStart(key, q)

SpecHistory == HistoryInit /\ [][ChatNext]_vars

\* One POST /tool request, for every key.
ToolInit ==
    /\ GraphInit
    /\ ToolIdle
    /\ ServicesIdle
    /\ HistoryStart(<<>>, FALSE, <<>>)
    /\ \E key \in ApiKeys : ChatStart(key, Q_RAG)

SpecTools == ToolInit /\ [][ExecuteTool]_vars

\* The calls on one GraphRAG object, with no chat request.
GraphOnlyInit ==
    /\ GraphInit
    /\ ToolIdle
    /\ ServicesIdle
    /\ HistoryStart(<<>>, FALSE, <<>>)
    /\ ChatStart(None, Q_RAG)

GraphNext == AddDocument /\ UNCHANGED <<chat_vars, history_vars, tool_vars, service_vars>>

SpecGraph == GraphOnlyInit /\ [][GraphNext]_vars

\* The calls on one GraphRAG object, the two queries included.
ExpandNext ==
    \/ AddDocumentThenQuery /\ UNCHANGED <<chat_vars, history_vars, tool_vars, service_vars>>
    \/ GetContext /\ UNCHANGED <<chat_vars, history_vars, tool_vars, service_vars>>

SpecExpand == GraphOnlyInit /\ [][ExpandNext]_vars

NeighborsNext ==
    \/ AddDocumentThenQuery /\ UNCHANGED <<chat_vars, history_vars, tool_vars, service_vars>>
    \/ GetDocumentRelationships /\ UNCHANGED <<chat_vars, history_vars, tool_vars, service_vars>>

SpecNeighbors == GraphOnlyInit /\ [][NeighborsNext]_vars

\* The texts the loader reads, and the vector the encoder gives each.
KnowledgeTexts == {"alpha", "beta", "gamma"}

Encode(text) ==
    IF text = "alpha" THEN E1 ELSE IF text = "beta" THEN E2 ELSE E3

MaxBatch == 2

MaxIngest == 3

\* The (texts, metadata) arguments of add_documents: up to MaxBatch different
\* documents, each with its metadata dict.
Batches ==
    {<<t>> : t \in KnowledgeTexts}
    \cup (IF MaxBatch >= 2
          THEN {<<t, u>> : t, u \in KnowledgeTexts} \ {<<t, t>> : t \in KnowledgeTexts}
          ELSE {})
    \cup (IF MaxBatch >= 3
          THEN {b \in [1..3 -> KnowledgeTexts] : b[1] # b[2] /\ b[1] # b[3] /\ b[2] # b[3]}
          ELSE {})

MetadataFor(batch) == [i \in 1..Len(batch) |-> [topic |-> batch[i], source |-> "original"]]

\* add_documents, lines 86-104: the points are numbered by their place in
\* this call's list, from 0, and upserted.
add_documents(points, batch, metadata) ==
    LET n == IF Len(batch) < Len(metadata) THEN Len(batch) ELSE Len(metadata)
        new == [i \in 0..(n - 1) |->
                   [vector |-> Encode(batch[i + 1]),
                    payload |-> [text |-> batch[i + 1], meta |-> metadata[i + 1]]]]
    IN [id \in DOMAIN points \cup DOMAIN new |->
           IF id \in DOMAIN new THEN new[id] ELSE points[id]]

\* One VectorStore.add_documents call: without a client it returns at once
\* (lines 79-81), an exception of the encoder or of the upsert is caught
\* (lines 105-106).
AddDocuments ==
    /\ n_ingest < MaxIngest
    /\ \E outcome \in {"upserted", "no_client", "raised"}, batch \in Batches :
          IF outcome = "upserted"
          THEN /\ index_points' = add_documents(index_points, batch, MetadataFor(batch))
               /\ ingested' = ingested \cup SeqToSet(batch)
          ELSE UNCHANGED <<index_points, ingested>>
    /\ n_ingest' = n_ingest + 1
    /\ UNCHANGED <<graph_state, chat_vars, history_vars, tool_vars,
                   writers, conv_vars, file_call>>

\* A chat request as the two stores see it: ChatService.__init__ makes a
\* VectorStore on the same collection and a new, empty GraphRAG (chat.py,
\* lines 12-14); get_response searches the collection and writes to neither.
ChatRequest ==
    /\ graph_nodes' = <<>>
    /\ node_attr' = <<>>
    /\ adj' = <<>>
    /\ edge_weight' = <<>>
    /\ emb_keys' = <<>>
    /\ embeddings' = <<>>
    /\ texts' = <<>>
    /\ last_call' = [op |-> "init", id |-> None, was_present |-> FALSE, outcome |-> "returned"]
    /\ UNCHANGED <<n_calls, chat_vars, history_vars, tool_vars, service_vars>>

MaxStoreAdds == 2

\* Ingestion, chat requests and add_document calls, in any order.
StoresNext ==
    \/ AddDocuments
    \/ ChatRequest
    \/ /\ n_calls < MaxStoreAdds
       /\ AddDocument
       /\ UNCHANGED <<chat_vars, history_vars, tool_vars, service_vars>>

SpecStores == GraphOnlyInit /\ [][StoresNext]_vars

\* The documents (by text) the collection holds, and those the graph holds.
IndexDocs == {index_points[id].payload.text : id \in DOMAIN index_points}

GraphDocs == {texts[id] : id \in StoredIds}

\* request.message of each /chat request, and response["response"] of its
\* answer: a short and a long text each.
RequestMessages(r) == IF r = "r1" THEN {"q1", "q1 long"} ELSE {"q2", "q2 long"}

Replies(r) == IF r = "r1" THEN {"a1", "a1 long"} ELSE {"a2", "a2 long"}

\* len(content) of a message text.
ContentLength(content) ==
    IF content \in {"q1 long", "q2 long", "a1 long", "a2 long"} THEN 150 ELSE Len(content)

\* chat endpoint, lines 29-76, up to the await of get_response: the history
\* is rebuilt from the messages stored so far.
ChatLoadHistory(r) ==
    /\ requests[r].pc = "start"
    /\ \E message \in RequestMessages(r) :
          requests' = [requests EXCEPT ![r] =
                          [@ EXCEPT !.pc = "awaiting",
                                    !.message = message,
                                    !.chat_history = LoadedHistory(<<>>, TRUE, conv_messages)]]
    /\ UNCHANGED <<conv_messages, listing>>
    /\ UNCHANGED <<graph_state, chat_vars, history_vars, tool_vars,
                   index_vars, writers, file_call>>

\* chat endpoint, lines 78-114, from the return of get_response on: the user
\* message is committed, then the assistant message (chat_history.py, lines
\* 67-90, one commit each). A reply of None violates nullable=False of
\* Message.content, and the second commit can fail on its own; both are
\* caught (lines 101-103). ChatResponse then rejects a None response and the
\* handler answers 500 (lines 113-116).
ChatSave(r) ==
    /\ requests[r].pc = "awaiting"
    /\ \E reply \in Replies(r) \cup {None}, second_commit \in {"ok", "raised"} :
          /\ reply = None => second_commit = "raised"
          /\ conv_messages' =
                 conv_messages
                 \o <<StoredMessage("user", requests[r].message)>>
                 \o (IF second_commit = "ok"
                     THEN <<StoredMessage("assistant", reply)>>
                     ELSE <<>>)
          /\ requests' = [requests EXCEPT ![r] =
                             [@ EXCEPT !.pc = "done",
                                       !.reply = reply,
                                       !.status = IF reply = None THEN 500 ELSE 200]]
    /\ UNCHANGED listing
    /\ UNCHANGED <<graph_state, chat_vars, history_vars, tool_vars,
                   index_vars, writers, file_call>>

\* get_messages(conversation_id, limit) (chat_history.py, lines 92-97): the
\* rows ordered by created_at, cut after the first `limit` when limit is set.
get_messages(rows, limit) ==
    IF limit > 0 /\ limit < Len(rows) THEN SubSeq(rows, 1, limit) ELSE rows

PreviewLength == 100

\* conversations.py, lines 43-47: the preview of a conversation.
ConversationPreview(rows) ==
    LET stored == get_messages(rows, 1)
    IN IF Len(stored) > 0
       THEN LET last_msg == stored[1].content
            IN IF ContentLength(last_msg) > PreviewLength
               THEN [of |-> last_msg, len |-> PreviewLength, ellipsis |-> TRUE]
               ELSE [of |-> last_msg, len |-> ContentLength(last_msg), ellipsis |-> FALSE]
       ELSE NoneObj

\* GET /conversations with the database available (conversations.py, lines
\* 30-58).
ListConversations ==
    /\ listing' = [preview |-> ConversationPreview(conv_messages),
                   message_count |-> Len(conv_messages)]
    /\ UNCHANGED <<conv_messages, requests>>
    /\ UNCHANGED <<graph_state, chat_vars, history_vars, tool_vars,
                   index_vars, writers, file_call>>

ConversationNext ==
    \/ \E r \in Requests : ChatLoadHistory(r)
    \/ \E r \in Requests : ChatSave(r)
    \/ ListConversations

SpecConversation == GraphOnlyInit /\ [][ConversationNext]_vars

\* The pieces the filenames of the requests are made of.
NameTokens ==
    {<<"a">>, <<"1">>, <<"_">>, <<"-">>, <<".">>, <<"/">>, <<"\\">>, <<".", "t", "x", "t">>}

MaxTokens == 3

\* The filenames of at most n tokens.
RECURSIVE NamesUpTo(_)
NamesUpTo(n) ==
    IF n = 0 THEN {<<>>}
    ELSE LET shorter == NamesUpTo(n - 1)
         IN shorter \cup {name \o token : name \in shorter, token \in NameTokens}

Filenames == NamesUpTo(MaxTokens) \ {<<>>}

TxtSuffix == <<".", "t", "x", "t">>

\* str.endswith
EndsWith(s, suffix) ==
    /\ Len(s) >= Len(suffix)
    /\ SubSeq(s, Len(s) - Len(suffix) + 1, Len(s)) = suffix

\* s.replace(old, ''): every occurrence, left to right, without overlap.
RECURSIVE RemoveAll(_, _)
RemoveAll(s, old) ==
    IF Len(s) < Len(old) THEN s
    ELSE IF SubSeq(s, 1, Len(old)) = old
    THEN RemoveAll(SubSeq(s, Len(old) + 1, Len(s)), old)
    ELSE <<s[1]>> \o RemoveAll(Tail(s), old)

\* c.isalnum() or c in ('_', '-')
SafeChar(c) ==
    \/ \E k \in 1..Len(LowerCase) : LowerCase[k] = c
    \/ \E k \in 1..Len(UpperCase) : UpperCase[k] = c
    \/ \E d \in 1..Len(DigitChars) : DigitChars[d] = c
    \/ c \in {"_", "-"}

\* The knowledge_base directory, once found.
KbDir == <<"/", "k", "b">>

\* os.path.join(kb_dir, filename)
PathJoin(dir, name) ==
    IF Len(name) > 0 /\ name[1] = "/" THEN name ELSE dir \o <<"/">> \o name

\* get_knowledge_base_file(filename), lines 164-260: the status of the answer,
\* the file opened if one was, and whether the file system was looked at.
\* The paths that reach line 223 hold no separator and no "..", so abspath
\* leaves them as they are.
get_knowledge_base_file(requested, kb_dir_found, file_exists, read) ==
    LET base_name == IF EndsWith(requested, TxtSuffix)
                     THEN RemoveAll(requested, TxtSuffix)
                     ELSE requested
        filename == IF EndsWith(requested, TxtSuffix) THEN requested
                    ELSE requested \o TxtSuffix
        file_path == PathJoin(KbDir, filename)
        answer(status, opened, looked) ==
            [requested |-> requested, status |-> status, opened |-> opened,
             file_system |-> looked,
             filename |-> IF status = 200 THEN filename ELSE <<>>]
    IN IF ~(\A i \in 1..Len(base_name) : SafeChar(base_name[i]))
       THEN answer(400, <<>>, FALSE)
       ELSE IF Contains(filename, <<".", ".">>) \/ Contains(filename, <<"/">>)
               \/ Contains(filename, <<"\\">>)
       THEN answer(400, <<>>, FALSE)
       ELSE IF ~kb_dir_found
       THEN answer(500, <<>>, TRUE)
       ELSE IF SubSeq(file_path, 1, Len(KbDir)) # KbDir
       THEN answer(400, <<>>, TRUE)
       ELSE IF ~file_exists
       THEN answer(404, <<>>, TRUE)
       ELSE IF read = "raised"
       THEN answer(500, file_path, TRUE)
       ELSE answer(200, file_path, TRUE)

\* One GET /knowledge-base/{filename} request.
GetKnowledgeBaseFile ==
    /\ file_call = NoneObj
    /\ \E requested \in Filenames, kb_dir_found \in BOOLEAN, file_exists \in BOOLEAN,
          read \in {"ok", "raised"} :
          file_call' = get_knowledge_base_file(requested, kb_dir_found, file_exists, read)
    /\ UNCHANGED <<graph_state, chat_vars, history_vars, tool_vars,
                   index_vars, writers, conv_vars>>

SpecFiles == GraphOnlyInit /\ [][GetKnowledgeBaseFile]_vars

\* add_document run by thread t on the shared GraphRAG object, statement by
\* statement; nothing in the class serialises the calls.  The thread adds a
\* document that is not in the graph and that no other thread is adding.
\* Line 14: self.graph.add_node(doc_id, text=text, metadata=metadata or {}).
ThreadAddNode(t) ==
    /\ writers[t].pc = "idle"
    /\ n_calls < MaxCalls
    /\ n_calls' = n_calls + 1
    /\ \E doc_id \in DocIds, embedding \in Embeddings :
          /\ doc_id \notin SeqToSet(graph_nodes)
          /\ \A u \in Threads : writers[u].doc_id # doc_id
          /\ LET g0 == [nodes |-> graph_nodes, attr |-> node_attr, adj |-> adj,
                        weight |-> edge_weight]
                 g1 == add_node(g0, doc_id, [text |-> "alpha", metadata |-> "{}"])
             IN /\ graph_nodes' = g1.nodes
                /\ node_attr' = g1.attr
                /\ adj' = g1.adj
          /\ writers' = [writers EXCEPT ![t] =
                            [pc |-> "store", doc_id |-> doc_id, embedding |-> embedding,
                             size |-> 0, pos |-> 0]]
          /\ last_call' = [op |-> "add_document", id |-> doc_id, was_present |-> FALSE,
                           outcome |-> "running"]
    /\ UNCHANGED <<edge_weight, emb_keys, embeddings, texts>>
    /\ UNCHANGED <<chat_vars, history_vars, tool_vars, index_vars, conv_vars, file_call>>

\* Lines 15-16 and the start of the for statement of line 19: the embedding
\* and the text are stored, and the iterator over self.embeddings notes the
\* size of the dict.
ThreadStore(t) ==
    /\ writers[t].pc = "store"
    /\ emb_keys' = PutKey(emb_keys, writers[t].doc_id)
    /\ embeddings' = Put(embeddings, writers[t].doc_id, writers[t].embedding)
    /\ texts' = Put(texts, writers[t].doc_id, "alpha")
    /\ writers' = [writers EXCEPT ![t] = [@ EXCEPT !.pc = "loop",
                                                   !.size = Len(emb_keys'),
                                                   !.pos = 0]]
    /\ last_call' = [op |-> "add_document", id |-> writers[t].doc_id,
                     was_present |-> FALSE, outcome |-> "running"]
    /\ UNCHANGED <<graph_nodes, node_attr, adj, edge_weight, n_calls>>
    /\ UNCHANGED <<chat_vars, history_vars, tool_vars, index_vars, conv_vars, file_call>>

\* One round of the loop of lines 19-28.  The iterator raises RuntimeError
\* when the dict has changed size since the loop began, and the exception
\* leaves add_document; at the end of the keys the call returns.
ThreadLoop(t) ==
    /\ writers[t].pc = "loop"
    /\ LET w == writers[t]
       IN IF Len(emb_keys) # w.size
          THEN /\ writers' = [writers EXCEPT ![t] = [@ EXCEPT !.pc = "raised"]]
               /\ last_call' = [op |-> "add_document", id |-> w.doc_id,
                                was_present |-> FALSE, outcome |-> "raised"]
               /\ UNCHANGED <<adj, edge_weight>>
          ELSE IF w.pos >= Len(emb_keys)
          THEN /\ writers' = [writers EXCEPT ![t] = IdleThread]
               /\ last_call' = [op |-> "add_document", id |-> w.doc_id,
                                was_present |-> FALSE, outcome |-> "returned"]
               /\ UNCHANGED <<adj, edge_weight>>
          ELSE LET g0 == [nodes |-> graph_nodes, attr |-> node_attr, adj |-> adj,
                          weight |-> edge_weight]
                   g1 == LinkSimilar(g0, SubSeq(emb_keys, w.pos + 1, w.pos + 1),
                                     embeddings, w.doc_id, w.embedding, 1)
               IN /\ adj' = g1.adj
                  /\ edge_weight' = g1.weight
                  /\ writers' = [writers EXCEPT ![t] = [@ EXCEPT !.pos = w.pos + 1]]
                  /\ last_call' = [op |-> "add_document", id |-> w.doc_id,
                                   was_present |-> FALSE, outcome |-> "running"]
    /\ UNCHANGED <<graph_nodes, node_attr, emb_keys, embeddings, texts, n_calls>>
    /\ UNCHANGED <<chat_vars, history_vars, tool_vars, index_vars, conv_vars, file_call>>

\* Two threads adding documents to one graph, and reads of it.
ConcurrentNext ==
    \/ \E t \in Threads : ThreadAddNode(t)
    \/ \E t \in Threads : ThreadStore(t)
    \/ \E t \in Threads : ThreadLoop(t)
    \/ GetDocumentRelationships
          /\ UNCHANGED <<chat_vars, history_vars, tool_vars, service_vars>>

SpecConcurrent == GraphOnlyInit /\ [][ConcurrentNext]_vars

(***************************************************************************)
(*                              The claims                                 *)
(***************************************************************************)

\* C1: after every add_document(id, ...) call, for every other stored document
\* e, the edge {id, e} exists if and only if the cosine similarity of the two
\* stored embeddings is strictly above 0.7, and its weight is that similarity.
C1_EdgeIffAboveThreshold ==
    last_call.op = "add_document" =>
        \A e \in StoredIds \ {last_call.id} :
            LET sim == CosSim(embeddings[last_call.id], embeddings[e])
            IN /\ HasEdge(last_call.id, e) <=> sim > Threshold
               /\ HasEdge(last_call.id, e) => edge_weight[{last_call.id, e}] = sim

\* C2: add_document with an id that is already in the graph fails and leaves
\* the graph (node payload, text, embedding, edges) as it was.
C2_ReinsertFailsUnchanged ==
    [][(last_call'.op = "add_document" /\ last_call'.id \in SeqToSet(graph_nodes))
          => (last_call'.outcome = "raised" /\ UNCHANGED graph_vars)]_vars

\* The largest score of a non-empty candidate list.
MaxScore(docs) ==
    CHOOSE m \in {docs[i].score : i \in 1..Len(docs)} :
        \A i \in 1..Len(docs) : docs[i].score <= m

\* The first place of the list that holds the largest score.
FirstMax(docs) ==
    CHOOSE i \in 1..Len(docs) :
        /\ docs[i].score = MaxScore(docs)
        /\ \A j \in 1..(i - 1) : docs[j].score < MaxScore(docs)

DigitValue(c) == CHOOSE d \in 0..9 : DigitChars[d + 1] = c

\* rs is "d.ddd", and the number it spells is the score to the nearest
\* thousandth (scores are in units of 1/10000).
ThreeDecimalsOf(rs, score) ==
    /\ Len(rs) = 5
    /\ rs[2] = "."
    /\ \A i \in {1, 3, 4, 5} : IsDigit(rs[i])
    /\ LET n == 1000 * DigitValue(rs[1]) + 100 * DigitValue(rs[3])
                + 10 * DigitValue(rs[4]) + DigitValue(rs[5])
       IN n * 10 - score \in -5..5

\* C3: for every non-empty candidate list the index returns, the candidate
\* selected is the first one in index-return order that holds the maximum
\* score, it is the only entry of the context, and the attribution's
\* relevance_score is that score with exactly three decimals (0.9 gives "0.900").
C3_TopMatchOnly ==
    (index_outcome = "ok" /\ Len(relevant_docs) > 0) =>
        /\ top_document = relevant_docs[FirstMax(relevant_docs)]
        /\ Len(enhanced_context) = 1
        /\ enhanced_context[1].score = MaxScore(relevant_docs)
        /\ enhanced_context[1].text = top_document.text
        /\ top_source_info # NoneObj
        /\ top_source_info.score = MaxScore(relevant_docs)
        /\ ThreeDecimalsOf(top_source_info.relevance_score, MaxScore(relevant_docs))
        /\ MaxScore(relevant_docs) = 9000 =>
               top_source_info.relevance_score = <<"0", ".", "9", "0", "0">>

\* Two candidates tie on the maximum 0.9 and the first one returned was selected.
C3_Witness ==
    /\ pc = "done"
    /\ relevant_docs = <<K3, K1>>
    /\ top_document = K3
    /\ top_source_info.relevance_score = <<"0", ".", "9", "0", "0">>

\* C4: when the generator call fails, the response text is an explanatory
\* message and the sources still hold every attribution assembled before the
\* failure: the knowledge-base attribution of the selected document, and the
\* live attribution when the web search had succeeded.
C4_FailureKeepsAttributions ==
    (pc \in {"finish", "done"} /\ gen_outcome.kind = "raised") =>
        /\ Len(response.response) > 0
        /\ top_source_info # NoneObj =>
               \E i \in 1..Len(response.sources) : response.sources[i] = top_source_info
        /\ (needs_web_search /\ web_outcome \in {"results", "no_results"}) =>
               \E i \in 1..Len(response.sources) : response.sources[i].type = "web_search"

C6_MissingKeyIsReported ==
    (pc = "done" /\ KeyNotConfigured(api_key)) =>
        /\ http.status = 200
        /\ http.body.response = KeyErrorResponse(<<>>).response

\* C7: the response (of a request whose generator call succeeded) holds a live
\* (web_search) attribution if and only if the trigger fired and the
\* web_search call succeeded; when the call failed (no credential, transport
\* error, timeout) there is no live attribution and the prompt quotes no live
\* result.
C7_LiveAttributionIffSucceeded ==
    (pc = "done" /\ gen_outcome.kind = "ok") =>
        LET live == \E i \in 1..Len(http.body.sources) :
                        http.body.sources[i].type = "web_search"
            succeeded == needs_web_search /\ web_outcome \in {"results", "no_results"}
        IN /\ live <=> succeeded
           /\ ~succeeded => system_content.web = NoneObj

\* The index returned no candidate (an empty result, or [] because Qdrant is
\* not available).
ZeroCandidates == index_outcome \in {"ok", "unavailable"} /\ Len(relevant_docs) = 0

TriggerEvaluated == pc \in {"generate", "finish"} \/ (pc = "done" /\ response # NoneObj)

MatchesKeyword(q) == \E keyword \in WebSearchKeywords : Contains(Lower(q), keyword)

\* C9 as stated: the trigger fires exactly when the query matches a keyword
\* or contains a 4-digit year (2023 too), and web_search is invoked if and
\* only if it fires.
C9_TriggerOnAnyYear ==
    TriggerEvaluated =>
        /\ needs_web_search <=> (MatchesKeyword(query) \/ ContainsYear(query))
        /\ (web_outcome # "not_called") <=> needs_web_search
        /\ query = Q_QUANTUM => needs_web_search
        /\ query = Q_RAG => ~needs_web_search
        /\ query = Q_2023 => needs_web_search

\* C9 (amended): the trigger fires exactly when the lower-cased query contains
\* one of the configured keywords, which hold the years "2024" and "2025" and
\* no other year; web_search is invoked if and only if it fires; the quantum
\* query fires it, "What is RAG?" does not, and neither does a query whose only
\* match would be the year 2023.
C9_Trigger ==
    TriggerEvaluated =>
        /\ needs_web_search <=> MatchesKeyword(query)
        /\ (web_outcome # "not_called") <=> needs_web_search
        /\ query = Q_QUANTUM => needs_web_search
        /\ query = Q_RAG => ~needs_web_search
        /\ query = Q_2023 => ~needs_web_search
        /\ query = Q_UPPER => needs_web_search

\* The 2023 query went through without a web search, the quantum query with one.
C9_Witness ==
    /\ pc = "done"
    /\ response # NoneObj
    /\ query = Q_2023
    /\ ~needs_web_search
    /\ web_outcome = "not_called"
    /\ web_search_result = NoneObj

\* C10: in every knowledge attribution has_file is false when the filename is
\* absent, is "Unknown", or the source is "original", and true otherwise; when
\* has_file is false the filename of the attribution is null.
C10_HasFile ==
    /\ top_source_info # NoneObj =>
          LET md == top_document.metadata
              absent == "filename" \notin DOMAIN md
              unknown == ~absent /\ md.filename = "Unknown"
              original == "source" \in DOMAIN md /\ md.source = "original"
          IN /\ top_source_info.has_file = ~(absent \/ unknown \/ original)
             /\ ~top_source_info.has_file => top_source_info.filename = None
             /\ top_source_info.has_file => top_source_info.filename = md.filename
    /\ (pc = "done" /\ http.status = 200) =>
          \A i \in 1..Len(http.body.sources) :
              http.body.sources[i].type = "knowledge_base" =>
                  http.body.sources[i] = top_source_info

\* A document with a filename whose source is "original" was cited: has_file is
\* false and the filename is null.
C10_Witness ==
    /\ pc = "done"
    /\ gen_outcome.kind = "ok"
    /\ top_document = K4
    /\ Len(http.body.sources) > 0
    /\ http.body.sources[1].type = "knowledge_base"
    /\ http.body.sources[1].has_file = FALSE
    /\ http.body.sources[1].filename = None

\* The ids of the entries of a result list.
ResultIds(results) == {results[i].id : i \in 1..Len(results)}

\* There is a path of at most `hops` edges from a to b in the graph.
WithinHops(a, b, hops) ==
    \E n \in 0..hops :
        \E path \in [1..(n + 1) -> SeqToSet(graph_nodes)] :
            /\ path[1] = a
            /\ path[n + 1] = b
            /\ \A i \in 1..n : HasEdge(path[i], path[i + 1])

\* C11: expand(seed_ids, depth) returns exactly the documents within at most
\* depth hops of a seed that is in the graph, those seeds included, each with
\* its stored text; seeds that are not in the graph are skipped and are not
\* in the result, and no document id occurs twice in the result.
C11_ExpandWithinDepth ==
    last_call.op = "get_context" =>
        LET results == last_call.results
            present == {s \in SeqToSet(last_call.seeds) : InGraph(s)}
        IN /\ last_call.outcome = "returned"
           /\ ResultIds(results) =
                 {d \in SeqToSet(graph_nodes) :
                     \E s \in present : WithinHops(s, d, last_call.depth)}
           /\ \A s \in SeqToSet(last_call.seeds) : ~InGraph(s) => s \notin ResultIds(results)
           /\ \A i, j \in 1..Len(results) : i # j => results[i].id # results[j].id
           /\ \A i \in 1..Len(results) : results[i].text = texts[results[i].id]

\* A call of expand with depth 2 on a chain a - b - c from the seed a and a seed
\* that is not in the graph: c is two hops away and not a neighbour of a.
C11_Witness ==
    /\ last_call.op = "get_context"
    /\ last_call.depth = 2
    /\ \E a, b, c \in SeqToSet(graph_nodes) :
          /\ a \in SeqToSet(last_call.seeds)
          /\ HasEdge(a, b) /\ HasEdge(b, c) /\ ~HasEdge(a, c) /\ a # c
          /\ \A s \in SeqToSet(last_call.seeds) : s # a => ~InGraph(s)
          /\ Len(last_call.seeds) = 2
          /\ ResultIds(last_call.results) = {a, b, c}

\* C12: expand(seed_ids, 0) returns exactly the seeds that are in the graph,
\* whatever edges they have.
C12_ExpandDepthZero ==
    (last_call.op = "get_context" /\ last_call.depth = 0) =>
        ResultIds(last_call.results) = {s \in SeqToSet(last_call.seeds) : InGraph(s)}

\* A call with depth 0 from two seeds, one with neighbours and one absent.
C12_Witness ==
    /\ last_call.op = "get_context"
    /\ last_call.depth = 0
    /\ \E s, t \in SeqToSet(last_call.seeds) :
          /\ InGraph(s) /\ Len(adj[s]) > 0
          /\ ~InGraph(t)
    /\ Len(last_call.results) = 1

NodePosition(id) == CHOOSE i \in 1..Len(graph_nodes) : graph_nodes[i] = id

\* C14: neighbors_of(id) lists the neighbours by non-increasing edge weight,
\* and neighbours of equal weight in the order in which their nodes were first
\* inserted, after any sequence of add_document calls.
C14_NeighborsSorted ==
    last_call.op = "get_document_relationships" =>
        LET r == last_call.results
        IN \A i, j \in 1..Len(r) :
              i < j => /\ r[i].similarity >= r[j].similarity
                       /\ r[i].similarity = r[j].similarity =>
                              NodePosition(r[i].id) < NodePosition(r[j].id)

\* C15: neighbors_of(id) on an id that is not in the graph fails with NotFound,
\* which is not the outcome for an id that is in the graph and has no neighbour.
C15_NeighborsNotFound ==
    last_call.op = "get_document_relationships" =>
        /\ ~last_call.was_present => last_call.outcome = "NotFound"
        /\ last_call.was_present => last_call.outcome # "NotFound"

\* The POST /tool request has been answered by a service that was constructed.
ToolAnswered == tool_call # NoneObj /\ ~KeyMissing(api_key)

\* C16: execute(name, args) with a name no provider registers fails with
\* UnknownCapability: the caller gets no text result, and the endpoint does not
\* answer as for a successful tool call.
C16_UnknownCapability ==
    (ToolAnswered /\ tool_call.tool \notin ToolNames) =>
        /\ "text" \notin DOMAIN tool_result
        /\ tool_http.status # 200

C18_InstructionStatesLiveResult ==
    system_content # NoneObj =>
        /\ web_outcome = "results" =>
              (system_content.web # NoneObj /\ system_content.web = web_search_result)
        /\ context_str.len = 0 => system_content.template = "no_knowledge_base_results"

\* The number of characters of a text of the model.
CharCount(t) == t.len + (IF t.ellipsis THEN Len("...") ELSE 0)

\* C19: the excerpt placed in the instruction is never longer than 2000
\* characters and the preview never longer than 300, whatever the length of
\* the selected document's text; a text within the budget is passed unchanged.
C19_BudgetsRespected ==
    (pc \notin {"depends", "history", "retrieve"} /\ Len(enhanced_context) > 0) =>
        LET full_text == enhanced_context[1].text
        IN /\ CharCount(context_str) <= ContextBudget
           /\ CharCount(top_source_info.text_preview) <= PreviewBudget
           /\ full_text.len <= ContextBudget => context_str = full_text
           /\ full_text.len <= PreviewBudget => top_source_info.text_preview = full_text

\* The turns the chat history stands for: per entry its user turn, and an
\* assistant turn when the entry has an assistant reply.
RECURSIVE TurnsOf(_)
TurnsOf(history) ==
    IF Len(history) = 0 THEN <<>>
    ELSE <<[role |-> "user", content |-> history[1].user]>>
         \o (IF "assistant" \in DOMAIN history[1] /\ history[1].assistant # None
             THEN <<[role |-> "assistant", content |-> history[1].assistant]>>
             ELSE <<>>)
         \o TurnsOf(Tail(history))

\* C20: the messages sent to the generator are one system message with the
\* grounding instruction, then the prior turns in order (per history entry the
\* user turn, then an assistant turn only when the entry has an assistant
\* reply), then the user's query last; no message has null content.
C20_MessageSequence ==
    (Len(messages) > 0 /\ gen_outcome.kind # "not_called") =>
        LET n == Len(messages)
        IN /\ n >= 2
           /\ system_content # NoneObj
           /\ messages[1] = [role |-> "system", content |-> system_content]
           /\ messages[n] = [role |-> "user", content |-> query]
           /\ SubSeq(messages, 2, n - 1) = TurnsOf(chat_history)
           /\ \A i \in 2..(n - 1) : messages[i].content # None

\* C24: every edge joins two distinct stored documents, and its weight is the
\* cosine similarity of the embeddings now stored for them and is above the
\* threshold; no edge computed from a replaced embedding remains.
C24_EdgesFollowEmbeddings ==
    \A e \in DOMAIN edge_weight :
        \E a, b \in StoredIds :
            /\ a # b
            /\ e = {a, b}
            /\ edge_weight[e] = CosSim(embeddings[a], embeddings[b])
            /\ edge_weight[e] > Threshold

\* The entries of neighbors_of(a) that name b.
RelationsTo(a, b) ==
    LET r == get_document_relationships(a)
    IN {r[i] : i \in {j \in 1..Len(r) : r[j].id = b}}

\* C25: edges are undirected and symmetric (the weight read from a to b is the
\* weight read from b to a; b is a neighbour of a exactly when a is a
\* neighbour of b), there is at most one edge per unordered pair, and no
\* document has an edge to itself.
C25_EdgesSymmetric ==
    \A a, b \in SeqToSet(graph_nodes) :
        /\ {r.similarity : r \in RelationsTo(a, b)} = {r.similarity : r \in RelationsTo(b, a)}
        /\ Cardinality({i \in 1..Len(adj[a]) : adj[a][i] = b}) <= 1
        /\ Cardinality({i \in 1..Len(adj[a]) : adj[a][i] = b})
              = Cardinality({i \in 1..Len(adj[b]) : adj[b][i] = a})
        /\ (\E i \in 1..Len(adj[a]) : adj[a][i] = b) <=> HasEdge(a, b)
        /\ a = b => RelationsTo(a, b) = {}

\* A document was added a second time and the graph holds an edge between two
\* documents, each listed once among the other's neighbours.
C25_Witness ==
    /\ last_call.op = "add_document" /\ last_call.was_present
    /\ \E a, b \in SeqToSet(graph_nodes) :
          /\ a # b /\ HasEdge(a, b)
          /\ Cardinality(RelationsTo(a, b)) = 1
          /\ Cardinality(RelationsTo(b, a)) = 1

\* C27: in every response to a successful generation, the attributions hold a
\* knowledge_base entry, and rag_documents_used is 1, exactly when the
\* instruction given to the generator contained a knowledge excerpt; a top
\* document whose text is empty is one of the cases.
C27_AttributionIffExcerpt ==
    (pc = "done" /\ gen_outcome.kind = "ok") =>
        LET excerpt == system_content.template # "no_knowledge_base_results"
        IN /\ (\E i \in 1..Len(http.body.sources) :
                   http.body.sources[i].type = "knowledge_base") <=> excerpt
           /\ http.body.metadata.rag_documents_used = 1 <=> excerpt

\* C22: under the BroadContext policy, retrieve inserts every candidate into
\* the similarity graph and expands the candidate ids with depth 1; every
\* document of the resulting context contributes exactly one attribution, and
\* a direct match keeps its candidate score.  The service has one retrieval
\* path, which every deployment runs (there is no policy setting), so the
\* property is stated of that path.
C22_BroadContext ==
    (pc = "done" /\ gen_outcome.kind = "ok" /\ index_outcome = "ok") =>
        LET candidates == SeqToSet(relevant_docs)
        IN /\ Cardinality(StoredIds) >= Cardinality(candidates)
           /\ \A c \in candidates :
                  \E j \in 1..Len(http.body.context) :
                      /\ http.body.context[j].text = c.text
                      /\ http.body.context[j].score = c.score
           /\ Cardinality({i \in 1..Len(http.body.sources) :
                              http.body.sources[i].type = "knowledge_base"})
                 = Len(http.body.context)

\* C21: after any sequence of add_documents calls, chat requests and
\* add_document calls, a document is in the similarity graph if and only if
\* it is in the nearest-neighbour index.
C21_GraphIffIndex == GraphDocs = IndexDocs

\* C26: after any sequence of add_documents calls the index holds every
\* document a call has stored, each under its own id: k distinct documents
\* ingested give k stored documents, none overwritten by a later call.
C26_IngestionKeepsDocuments ==
    /\ IndexDocs = ingested
    /\ Cardinality(DOMAIN index_points) = Cardinality(ingested)

\* The request a message text belongs to.
RequestOf(content) ==
    IF content \in RequestMessages("r1") \cup Replies("r1") THEN "r1" ELSE "r2"

\* C28: with the database available, each completed /chat request has
\* appended exactly two messages, its user message and then its reply; for
\* every interleaving of the requests of a conversation the stored messages
\* alternate user, assistant, and the rebuilt history pairs each user message
\* with its own reply.
C28_TwoMessagesPerRequest ==
    /\ \A r \in Requests :
          (requests[r].pc = "done" /\ requests[r].status = 200) =>
              \E i \in 1..(Len(conv_messages) - 1) :
                  /\ conv_messages[i] = StoredMessage("user", requests[r].message)
                  /\ conv_messages[i + 1] = StoredMessage("assistant", requests[r].reply)
                  /\ \A j \in 1..Len(conv_messages) :
                         RequestOf(conv_messages[j].content) = r => j \in {i, i + 1}
    /\ \A i \in 1..Len(conv_messages) :
          conv_messages[i].role = (IF i % 2 = 1 THEN "user" ELSE "assistant")
    /\ LET history == ToChatHistory(conv_messages, 1)
       IN \A k \in 1..Len(history) :
              /\ history[k].assistant # None
              /\ RequestOf(history[k].assistant) = RequestOf(history[k].user)

\* The preview the listing must show for the stored messages.
PreviewOfLatest ==
    IF Len(conv_messages) = 0 THEN NoneObj
    ELSE LET latest == conv_messages[Len(conv_messages)].content
         IN [of |-> latest,
             len |-> IF ContentLength(latest) > 100 THEN 100 ELSE ContentLength(latest),
             ellipsis |-> ContentLength(latest) > 100]

\* C29: the preview of a conversation in the listing is derived from its most
\* recently created message, cut to 100 characters plus "..." when longer; it
\* is null only when the conversation has no message.
C29_PreviewOfLatestMessage ==
    [][listing' # listing => listing'.preview = PreviewOfLatest']_vars

\* The name without its ".txt" extension.
BaseNameOf(name) ==
    IF EndsWith(name, TxtSuffix) THEN SubSeq(name, 1, Len(name) - Len(TxtSuffix)) ELSE name

\* C30: for every filename given to the knowledge-base file endpoint, the only
\* file opened is a .txt file directly inside the knowledge_base directory,
\* and a filename that holds a path separator or "..", or whose base name
\* holds a character other than letters, digits, '_' and '-', is answered 400
\* before the file system is looked at.
C30_OnlySafeNamesOpened ==
    file_call # NoneObj =>
        /\ file_call.opened # <<>> =>
              \E name \in Filenames \cup {f \o TxtSuffix : f \in Filenames} :
                  /\ file_call.opened = KbDir \o <<"/">> \o name
                  /\ EndsWith(name, TxtSuffix)
                  /\ ~Contains(name, <<"/">>) /\ ~Contains(name, <<"\\">>)
                  /\ ~Contains(name, <<".", ".">>)
        /\ LET name == file_call.requested
           IN (\/ Contains(name, <<"/">>) \/ Contains(name, <<"\\">>)
               \/ Contains(name, <<".", ".">>)
               \/ \E i \in 1..Len(BaseNameOf(name)) : ~SafeChar(BaseNameOf(name)[i]))
              => (file_call.status = 400 /\ ~file_call.file_system)

\* The documents whose add_document call has returned.
Inserted ==
    {d \in StoredIds : \A t \in Threads : writers[t].doc_id # d}

\* The embedding add_document was given for a document that is a node.
GivenEmbedding(d) ==
    IF d \in StoredIds THEN embeddings[d]
    ELSE writers[CHOOSE t \in Threads : writers[t].doc_id = d].embedding

\* C23: when add_document calls and reads on one shared graph are
\* interleaved, no read sees a document that is already a node while some of
\* its above-threshold edges to earlier documents are missing, and once the
\* concurrent insertions are over they have all returned and the edges are
\* those that running them one after the other gives.
C23_ReadsSeeSerialStates ==
    /\ (last_call.op = "get_document_relationships" /\ last_call.was_present) =>
          \A b \in Inserted \ {last_call.id} :
              CosSim(GivenEmbedding(last_call.id), embeddings[b]) > Threshold
                  => b \in {last_call.results[i].id : i \in 1..Len(last_call.results)}
    /\ (\A t \in Threads : writers[t].pc \in {"idle", "raised"}) =>
          /\ \A t \in Threads : writers[t].pc = "idle"
          /\ \A a, b \in StoredIds :
                 a # b => (HasEdge(a, b) <=> CosSim(embeddings[a], embeddings[b]) > Threshold)

====
